---- MODULE Spec2Model ----
(***************************************************************************)
(* The catalog store of library-managment.py: the SQLite table "books",    *)
(* the cover files covers/<id>.jpg and the five store functions add_book,  *)
(* get_all_books, search_books, update_book and delete_book.               *)
(*                                                                         *)
(* Every function opens its own sqlite3 connection and closes it only on   *)
(* the straight-line path, so an exception leaves the connection open,     *)
(* with its transaction uncommitted, until the Python runtime finalizes    *)
(* it.  The model keeps those leaked connections as state because an open  *)
(* write transaction locks the database file against the other writers.   *)
(*                                                                         *)
(* search_books and update_book paste caller text into the SQL statement.  *)
(* The model reads that text the way SQLite does, token by token, for the  *)
(* statements listed at SearchOperand and UpdateMalformed; for any other   *)
(* text those definitions have no value.                                   *)
(***************************************************************************)
EXTENDS Integers, Sequences, FiniteSets, TLC

VARIABLES
    books,   \* the committed rows of table books, a set of records
    seq,     \* sqlite_sequence.seq of table books (AUTOINCREMENT), 0 if none
    covers,  \* the files of directory covers: book id -> file content
    conns,   \* connections left open by calls that raised
    last     \* the last call of a store function: arguments and outcome

vars == <<books, seq, covers, conns, last>>

-----------------------------------------------------------------------------
(* Bounds of the model.                                                    *)

\* add_book is not called once the next row id would exceed MaxId.
MaxId == 2

\* A call that would raise is not made while MaxLeaked connections are open.
MaxLeaked == 2

-----------------------------------------------------------------------------
(* Values.  A Python value handed to the store carries its type; so does a *)
(* value stored in a column.  Text is a sequence of one-character strings. *)
(* A float or REAL value is a pair <<m, e>> standing for m * 10^e, with no *)
(* trailing zero in m; the numbers of the model are short enough for the   *)
(* decimal to be the exact value SQLite and Python show.                   *)

PyStr(s) == [t |-> "str", v |-> s]
PyInt(n) == [t |-> "int", v |-> n]
PyFloat(d) == [t |-> "float", v |-> d]
PyDate(y, m, d) == [t |-> "date", v |-> <<y, m, d>>]

SqlText(s) == [t |-> "text", v |-> s]
SqlInteger(n) == [t |-> "integer", v |-> n]
SqlReal(d) == [t |-> "real", v |-> d]

Min(S) == CHOOSE m \in S : \A n \in S : m <= n

Max(S) == CHOOSE m \in S : \A n \in S : n <= m

DigitChars == <<"0", "1", "2", "3", "4", "5", "6", "7", "8", "9">>

RECURSIVE Digits(_)
\* The decimal digits of a natural number, as str(n) writes them.
Digits(n) ==
    IF n < 10 THEN <<DigitChars[n + 1]>>
    ELSE Digits(n \div 10) \o <<DigitChars[(n % 10) + 1]>>

IntText(n) == IF n < 0 THEN <<"-">> \o Digits(0 - n) ELSE Digits(n)

RECURSIVE ZeroPad(_, _)
ZeroPad(s, w) == IF Len(s) >= w THEN s ELSE ZeroPad(<<"0">> \o s, w)

\* datetime.date.isoformat(): YYYY-MM-DD.
IsoFormat(d) ==
    ZeroPad(Digits(d[1]), 4) \o <<"-">> \o ZeroPad(Digits(d[2]), 2)
        \o <<"-">> \o ZeroPad(Digits(d[3]), 2)

\* What sqlite3 binds for a Python parameter: str, int and float as they
\* are, a datetime.date through the default adapter, as its ISO text.
Adapt(x) ==
    CASE x.t = "str" -> SqlText(x.v)
      [] x.t = "int" -> SqlInteger(x.v)
      [] x.t = "float" -> SqlReal(x.v)
      [] x.t = "date" -> SqlText(IsoFormat(x.v))

IsDigit(c) == \E i \in 1..10 : DigitChars[i] = c

DigitValue(c) == (CHOOSE i \in 1..10 : DigitChars[i] = c) - 1

AllDigits(s) == \A i \in 1..Len(s) : IsDigit(s[i])

RECURSIVE TextToInt(_)
TextToInt(s) ==
    IF s = <<>> THEN 0
    ELSE 10 * TextToInt(SubSeq(s, 1, Len(s) - 1)) + DigitValue(s[Len(s)])

RECURSIVE Pow10(_)
Pow10(n) == IF n = 0 THEN 1 ELSE 10 * Pow10(n - 1)

RECURSIVE Normalize(_, _)
\* m * 10^e written with no trailing zero in m.
Normalize(m, e) ==
    IF m = 0 THEN <<0, 0>>
    ELSE IF m % 10 = 0 THEN Normalize(m \div 10, e + 1)
         ELSE <<m, e>>

\* The vertical tab, character 11.
VerticalTab == ""

\* The characters SQLite skips as white space around numeric text.
WhiteSpace == {" ", "\t", "\n", VerticalTab, "\f", "\r"}

RECURSIVE TrimLeft(_)
TrimLeft(s) ==
    IF s # <<>> /\ Head(s) \in WhiteSpace THEN TrimLeft(Tail(s)) ELSE s

RECURSIVE TrimRight(_)
TrimRight(s) ==
    IF s # <<>> /\ s[Len(s)] \in WhiteSpace
    THEN TrimRight(SubSeq(s, 1, Len(s) - 1))
    ELSE s

Trim(s) == TrimRight(TrimLeft(s))

\* The parts of numeric text: [sign] digits [. digits] [e [sign] digits].
Signless(s) == IF s # <<>> /\ Head(s) \in {"+", "-"} THEN Tail(s) ELSE s

IsNegative(s) == s # <<>> /\ Head(s) = "-"

ExponentAt(s) == {i \in 1..Len(s) : s[i] \in {"e", "E"}}

Mantissa(s) ==
    IF ExponentAt(s) = {} THEN s ELSE SubSeq(s, 1, Min(ExponentAt(s)) - 1)

Exponent(s) ==
    IF ExponentAt(s) = {} THEN <<>>
    ELSE SubSeq(s, Min(ExponentAt(s)) + 1, Len(s))

PointAt(s) == {i \in 1..Len(s) : s[i] = "."}

IntegerPart(s) ==
    IF PointAt(s) = {} THEN s ELSE SubSeq(s, 1, Min(PointAt(s)) - 1)

FractionPart(s) ==
    IF PointAt(s) = {} THEN <<>> ELSE SubSeq(s, Min(PointAt(s)) + 1, Len(s))

\* Text that SQLite takes for a number when a column of INTEGER or NUMERIC
\* affinity stores it: white space around it, a sign, digits with at most
\* one decimal point and at least one digit, and an exponent that, if
\* begun, has digits.
IsNumericLiteral(text) ==
    LET s == Signless(Trim(text))
        m == Mantissa(s)
        x == Exponent(s)
    IN  /\ AllDigits(IntegerPart(m))
        /\ AllDigits(FractionPart(m))
        /\ Len(IntegerPart(m)) + Len(FractionPart(m)) >= 1
        /\ ExponentAt(s) = {} \/ (Signless(x) # <<>> /\ AllDigits(Signless(x)))

\* The number that text is, as the pair <<m, e>>.
NumericValue(text) ==
    LET t == Trim(text)
        s == Signless(t)
        m == Mantissa(s)
        x == Exponent(s)
        digits == TextToInt(IntegerPart(m) \o FractionPart(m))
        power == TextToInt(Signless(x))
    IN  Normalize(IF IsNegative(t) THEN 0 - digits ELSE digits,
                  (IF IsNegative(x) THEN 0 - power ELSE power)
                      - Len(FractionPart(m)))

\* A number is stored as an INTEGER when it has no fraction, as a REAL
\* otherwise.
NumericToSql(d) ==
    IF d[2] >= 0 THEN SqlInteger(d[1] * Pow10(d[2])) ELSE SqlReal(d)

\* The text of a REAL, as SQLite's "%!.15g" writes it: the digits around a
\* decimal point, or d.ddde+XX from 1e15 up and d.ddde-XX below 0.0001.
RealText(d) ==
    LET neg == d[1] < 0
        ds == Digits(IF neg THEN 0 - d[1] ELSE d[1])
        lead == Len(ds) + d[2] - 1
        padded == ZeroPad(ds, 1 - d[2])
        whole == Len(padded) + d[2]
    IN  (IF neg THEN <<"-">> ELSE <<>>) \o
        (IF lead >= 15 \/ lead < 0 - 4
         THEN <<Head(ds), ".">> \o (IF Len(ds) = 1 THEN <<"0">> ELSE Tail(ds))
                  \o <<"e", IF lead < 0 THEN "-" ELSE "+">>
                  \o ZeroPad(Digits(IF lead < 0 THEN 0 - lead ELSE lead), 2)
         ELSE IF d[2] >= 0
              THEN ds \o [i \in 1..d[2] |-> "0"] \o <<".", "0">>
              ELSE SubSeq(padded, 1, whole) \o <<".">>
                       \o SubSeq(padded, whole + 1, Len(padded)))

\* The columns of table books, in the order of CREATE TABLE, without id.
Columns ==
    <<"title", "author", "isbn", "genre", "pages", "year", "publisher",
      "acquired_date", "read_status", "rating", "notes">>

ColumnSet == {Columns[i] : i \in 1..Len(Columns)}

AllColumns == ColumnSet \cup {"id"}

\* The names of the columns as they are spelled in CREATE TABLE.
ColumnText ==
    [id |-> <<"i", "d">>, title |-> <<"t", "i", "t", "l", "e">>, author |-> <<"a", "u", "t", "h", "o", "r">>, isbn |-> <<"i", "s", "b", "n">>,
     genre |-> <<"g", "e", "n", "r", "e">>, pages |-> <<"p", "a", "g", "e", "s">>, year |-> <<"y", "e", "a", "r">>,
     publisher |-> <<"p", "u", "b", "l", "i", "s", "h", "e", "r">>, acquired_date |-> <<"a", "c", "q", "u", "i", "r", "e", "d", "_", "d", "a", "t", "e">>,
     read_status |-> <<"r", "e", "a", "d", "_", "s", "t", "a", "t", "u", "s">>, rating |-> <<"r", "a", "t", "i", "n", "g">>, notes |-> <<"n", "o", "t", "e", "s">>]

TextColumns ==
    {"title", "author", "isbn", "genre", "publisher", "read_status", "notes"}

\* The declared type of a column decides what a bound value is stored as:
\* a TEXT column stores a number as its text; an INTEGER column, and the
\* DATE column (NUMERIC affinity), store text that is a number as that
\* number, any other text as it is, and a REAL without fraction as an
\* INTEGER.
Affinity(col, x) ==
    IF col \in TextColumns
    THEN CASE x.t = "integer" -> SqlText(IntText(x.v))
           [] x.t = "real" -> SqlText(RealText(x.v))
           [] x.t = "text" -> x
    ELSE CASE x.t = "text" ->
                IF IsNumericLiteral(x.v)
                THEN NumericToSql(NumericValue(x.v))
                ELSE x
           [] x.t = "real" -> NumericToSql(x.v)
           [] x.t = "integer" -> x

\* The value column col holds after Python value x was bound to it.
Stored(col, x) == Affinity(col, Adapt(x))

-----------------------------------------------------------------------------
(* The table.                                                              *)

Ids(tbl) == {r.id.v : r \in tbl}

RowOf(tbl, id) == CHOOSE r \in tbl : r.id.v = id

\* A row id by counting the rows (a deleted row's id comes back).
NextRowidByCount(tbl, sq) == Cardinality(tbl) + 1

\* The row id an INSERT into the AUTOINCREMENT table takes: one more than
\* the largest of sqlite_sequence.seq and the row ids present.
NextRowid(tbl, sq) == Max({sq} \cup Ids(tbl)) + 1

\* The row INSERT INTO books (title, ..., notes) VALUES (?, ..., ?) adds.
InsertRow(id, book_data) ==
    [c \in AllColumns |->
        IF c = "id" THEN SqlInteger(id) ELSE Stored(c, book_data[c])]

\* The Python value sqlite3 returns for a stored value: str for text, int
\* for an integer, float for a real.  No converter is registered, so text
\* stays text.
Fetch(x) ==
    CASE x.t = "text" -> PyStr(x.v)
      [] x.t = "integer" -> PyInt(x.v)
      [] x.t = "real" -> PyFloat(x.v)

\* pandas gives a column holding integers and reals, and nothing else, the
\* dtype float64: its integers come out as floats.
IsFloatColumn(tbl, c) ==
    /\ \A r \in tbl : r[c].t \in {"integer", "real"}
    /\ \E r \in tbl : r[c].t = "real"

FetchRow(tbl, r) ==
    [c \in AllColumns |->
        IF r[c].t = "integer" /\ IsFloatColumn(tbl, c)
        THEN PyFloat(Normalize(r[c].v, 0))
        ELSE Fetch(r[c])]

RECURSIVE Records(_, _)
\* The rows of the result set tbl that are in rest, in row id order.
Records(tbl, rest) ==
    IF rest = {} THEN <<>>
    ELSE LET r == CHOOSE x \in rest : \A y \in rest : x.id.v <= y.id.v
         IN  <<FetchRow(tbl, r)>> \o Records(tbl, rest \ {r})

\* pd.read_sql of a SELECT * whose result set is tbl: the table is walked
\* in row id order.
DataFrame(tbl) == Records(tbl, tbl)

-----------------------------------------------------------------------------
(* The SQL text SQLite is given.                                           *)

UpperCase ==
    <<"A", "B", "C", "D", "E", "F", "G", "H", "I", "J", "K", "L", "M",
      "N", "O", "P", "Q", "R", "S", "T", "U", "V", "W", "X", "Y", "Z">>

LowerCase ==
    <<"a", "b", "c", "d", "e", "f", "g", "h", "i", "j", "k", "l", "m",
      "n", "o", "p", "q", "r", "s", "t", "u", "v", "w", "x", "y", "z">>

\* LIKE, and the names of SQL, compare ASCII letters without regard to
\* case.
Fold(c) ==
    IF \E i \in 1..26 : UpperCase[i] = c
    THEN LowerCase[CHOOSE i \in 1..26 : UpperCase[i] = c]
    ELSE c

FoldAll(text) == [i \in 1..Len(text) |-> Fold(text[i])]

NameStart ==
    {UpperCase[i] : i \in 1..26} \cup {LowerCase[i] : i \in 1..26} \cup {"_"}

NameChars == NameStart \cup {DigitChars[i] : i \in 1..10} \cup {"$"}

\* The length of the longest prefix of s made of characters of S.
Run(s, S) ==
    CHOOSE n \in 0..Len(s) :
        /\ \A i \in 1..n : s[i] \in S
        /\ n = Len(s) \/ s[n + 1] \notin S

Token(k, v) == [k |-> k, v |-> v]

\* What a quotation mark opens: "..." a name that may turn out a string,
\* '...' a string, [...] a name.
QuoteKind(c) ==
    CASE c = "\"" -> "dqname"
      [] c = "'" -> "string"
      [] c = "[" -> "name"

RECURSIVE Tokens(_)
\* The tokens of SQL text s: words, whole numbers, quoted names and
\* strings, and single characters of punctuation.  White space separates
\* tokens; a vertical tab is white space only behind other white space and
\* is an illegal token elsewhere.  A quotation that does not close is an
\* illegal token.  Text the model does not read further (a
\* number with a fraction, an exponent or letters on it, a doubled
\* quotation mark inside a quotation) is a token of kind other.
Tokens(s) ==
    IF s = <<>> THEN <<>>
    ELSE LET c == Head(s)
             from(n) == SubSeq(s, n + 1, Len(s))
         IN
         CASE c \in WhiteSpace \ {VerticalTab} -> Tokens(TrimLeft(Tail(s)))
           [] c = VerticalTab -> <<Token("illegal", <<c>>)>>
           [] c \in NameStart ->
                LET n == Run(s, NameChars)
                IN  <<Token("word", SubSeq(s, 1, n))>> \o Tokens(from(n))
           [] IsDigit(c) ->
                LET n == Run(s, NameChars \cup {"."})
                IN  <<Token(IF AllDigits(SubSeq(s, 1, n)) THEN "number"
                            ELSE "other", SubSeq(s, 1, n))>>
                        \o Tokens(from(n))
           [] c \in {"\"", "'", "["} ->
                LET close == IF c = "[" THEN "]" ELSE c
                    ends == {i \in 2..Len(s) : s[i] = close}
                    j == Min(ends)
                IN  IF ends = {} THEN <<Token("illegal", s)>>
                    ELSE IF c # "[" /\ j < Len(s) /\ s[j + 1] = c
                         THEN <<Token("other", s)>>
                         ELSE <<Token(QuoteKind(c), SubSeq(s, 2, j - 1))>>
                                  \o Tokens(from(j))
           [] OTHER -> <<Token("punct", <<c>>)>> \o Tokens(Tail(s))

\* The tokens of text that follows a space in its statement, as search_by
\* does behind WHERE and set_clause behind SET.
TokensInStatement(s) == Tokens(<<" ">> \o s)

IsPunct(tok, c) == tok.k = "punct" /\ tok.v = <<c>>

IsWord(tok, words) == tok.k = "word" /\ FoldAll(tok.v) \in words

HasIllegal(T) == \E i \in 1..Len(T) : T[i].k = "illegal"

\* The names SQLite gives the row id of a table; in books that is column
\* id, the INTEGER PRIMARY KEY.
RowidAliases == {<<"r", "o", "w", "i", "d">>, <<"o", "i", "d">>, <<"_", "r", "o", "w", "i", "d", "_">>}

NoColumn == "none"

\* The column a name stands for, whatever the case of its letters.
ResolveName(name) ==
    IF \E c \in AllColumns : ColumnText[c] = FoldAll(name)
    THEN CHOOSE c \in AllColumns : ColumnText[c] = FoldAll(name)
    ELSE IF FoldAll(name) \in RowidAliases THEN "id" ELSE NoColumn

-----------------------------------------------------------------------------
(* Inputs.                                                                 *)

Unread == <<"U", "n", "r", "e", "a", "d">>
Finished == <<"F", "i", "n", "i", "s", "h", "e", "d">>

\* book_data as the form of main() builds it: str, int and date values.
Book1 ==
    [title |-> PyStr(<<"A", "b">>), author |-> PyStr(<<"b">>),
     isbn |-> PyStr(<<"1">>), genre |-> PyStr(<<"a">>), pages |-> PyInt(7),
     year |-> PyInt(1965), publisher |-> PyStr(<<"p">>),
     acquired_date |-> PyDate(2024, 1, 2), read_status |-> PyStr(Unread),
     rating |-> PyInt(3), notes |-> PyStr(<<>>)]

Book2 ==
    [title |-> PyStr(<<"b">>), author |-> PyStr(<<>>),
     isbn |-> PyStr(<<>>), genre |-> PyStr(<<>>), pages |-> PyInt(0),
     year |-> PyInt(0), publisher |-> PyStr(<<>>),
     acquired_date |-> PyDate(2023, 12, 31), read_status |-> PyStr(Finished),
     rating |-> PyInt(5), notes |-> PyStr(<<"n">>)]

BookInputs == {Book1, Book2}

\* cover_image: None, an upload PIL decodes and writes as JPEG, an upload
\* PIL cannot decode, an upload PIL decodes in a mode JPEG cannot hold (a
\* PNG with transparency).
NoCover == "None"
CoverInputs == {NoCover, "picture", "junk", "rgba"}
Decodable(cover_image) == cover_image \in {"picture", "rgba"}
Writable(cover_image) == cover_image = "picture"

\* The file image.save(cover_path) writes: the picture re-encoded as JPEG.
SavedCover(cover_image) == <<"JPEG", cover_image>>

\* The file image.save(cover_path) has opened for writing when the encoder
\* refuses the image.
EmptyCover == <<>>

IdInputs == 1..MaxId

\* One item of the dict updates.
Item(key, value) == [key |-> key, value |-> value]

\* updates, a dict, as the sequence of its items: the empty dict; two
\* columns, the first by a quoted name in another case and with padded
\* numeric text; a name that is no column; an alias of id with text that
\* is a number but no integer; a key that carries an assignment of its own,
\* with a float; a key that carries a second placeholder; id.
UpdateInputs ==
    {<<>>,
     <<Item(<<"\"", "R", "a", "t", "i", "n", "g", "\"">>, PyStr(<<"", "+", "5", ".", "0", "e", "0", " ">>)),
       Item(<<"r", "e", "a", "d", "_", "s", "t", "a", "t", "u", "s">>, PyStr(Finished))>>,
     <<Item(<<"b", "o", "g", "u", "s">>, PyInt(1))>>,
     <<Item(<<"R", "o", "w", "I", "d">>, PyStr(<<" ", "2", ".", "5", " ">>))>>,
     <<Item(<<"r", "e", "a", "d", "_", "s", "t", "a", "t", "u", "s", " ", "=", " ", "'", "F", "i", "n", "i", "s", "h", "e", "d", "'", ",", " ", "r", "a", "t", "i", "n", "g">>, PyFloat(Normalize(5, 0)))>>,
     <<Item(<<"r", "a", "t", "i", "n", "g", " ", "=", " ", "?", ",", " ", "t", "i", "t", "l", "e">>, PyInt(5))>>,
     <<Item(<<"i", "d">>, PyInt(2))>>}

\* search_term: the empty text, a letter, the two wildcards of LIKE.
SearchTerms == {<<>>, <<"a">>, <<"_">>, <<"%">>}

\* The search fields the form offers.
AllowList == {<<"t", "i", "t", "l", "e">>, <<"a", "u", "t", "h", "o", "r">>, <<"g", "e", "n", "r", "e">>, <<"i", "s", "b", "n">>}

\* search_by: the offered fields; three other columns; a column in another
\* case and by the alias of id; a name that is no column; four
\* expressions; a second statement.
SearchFields ==
    AllowList \cup
        {<<"p", "u", "b", "l", "i", "s", "h", "e", "r">>, <<"i", "d">>, <<"r", "a", "t", "i", "n", "g">>, <<"T", "I", "T", "L", "E">>, <<"r", "o", "w", "i", "d">>, <<"b", "o", "g", "u", "s">>,
         <<"l", "o", "w", "e", "r", "(", "t", "i", "t", "l", "e", ")">>, <<"t", "i", "t", "l", "e", " ", "C", "O", "L", "L", "A", "T", "E", " ", "B", "I", "N", "A", "R", "Y">>, <<"1", "=", "1", " ", "O", "R", " ", "t", "i", "t", "l", "e">>,
         <<"1", "=", "0", " ", "O", "R", " ", "t", "i", "t", "l", "e">>, <<"i", "d", ";", " ", "D", "R", "O", "P", " ", "T", "A", "B", "L", "E", " ", "b", "o", "o", "k", "s">>}

-----------------------------------------------------------------------------
(* Initial state: init_db() and os.makedirs("covers") in an empty          *)
(* directory.                                                              *)

NoArgs == [none |-> TRUE]

Init ==
    /\ books = {}
    /\ seq = 0
    /\ covers = [i \in {} |-> <<>>]
    /\ conns = [open |-> 0, writer |-> FALSE]
    /\ last = [op |-> "init_db", args |-> NoArgs, status |-> "ok",
               ret |-> "None", aux |-> NoArgs]

\* The call returned; conn.close() was its last statement but one.
Returned(op, args, ret, aux) ==
    [op |-> op, args |-> args, status |-> "ok", ret |-> ret, aux |-> aux]

\* The call raised; conn.close() was not reached (see Leak).
Raised(op, args, error, aux) ==
    [op |-> op, args |-> args, status |-> error, ret |-> "None", aux |-> aux]

\* The connections after a call raised; writer: its transaction had taken
\* the write lock.
Leak(writer) ==
    [open |-> conns.open + 1, writer |-> conns.writer \/ writer]

CanLeak == conns.open < MaxLeaked

\* Another connection holds the write lock: a write fails with "database is
\* locked" once the busy timeout has passed.
Locked == conns.writer

CoverExists(id) == id \in DOMAIN covers

-----------------------------------------------------------------------------
(* add_book(book_data, cover_image)                                        *)

\* add_book is called while the next row id is within the bound.
CanAdd == NextRowid(books, seq) <= MaxId

\* The INSERT cannot take the write lock.
AddBookLocked(book_data, cover_image) ==
    /\ CanAdd
    /\ Locked
    /\ CanLeak
    /\ conns' = Leak(FALSE)
    /\ last' = Raised("add_book",
                      [book_data |-> book_data, cover_image |-> cover_image],
                      "OperationalError", [book_id |-> 0])
    /\ UNCHANGED <<books, seq, covers>>

\* Image.open raises after the INSERT and before conn.commit(): the row
\* stays in the open transaction of the leaked connection.
AddBookBadCover(book_data, cover_image) ==
    /\ CanAdd
    /\ ~Locked
    /\ cover_image # NoCover
    /\ ~Decodable(cover_image)
    /\ CanLeak
    /\ conns' = Leak(TRUE)
    /\ last' = Raised("add_book",
                      [book_data |-> book_data, cover_image |-> cover_image],
                      "OSError", [book_id |-> NextRowid(books, seq)])
    /\ UNCHANGED <<books, seq, covers>>

\* image.save raises after it opened covers/<id>.jpg for writing and before
\* conn.commit().  Pillow removes the file it created, where it does so at
\* all (removes); a file that was there before stays, emptied.
AddBookBadSave(book_data, cover_image, removes) ==
    LET book_id == NextRowid(books, seq) IN
    /\ CanAdd
    /\ ~Locked
    /\ Decodable(cover_image)
    /\ ~Writable(cover_image)
    /\ CanLeak
    /\ conns' = Leak(TRUE)
    /\ covers' = IF removes /\ ~CoverExists(book_id) THEN covers
                 ELSE (book_id :> EmptyCover) @@ covers
    /\ last' = Raised("add_book",
                      [book_data |-> book_data, cover_image |-> cover_image],
                      "OSError", [book_id |-> book_id])
    /\ UNCHANGED <<books, seq>>

AddBookOk(book_data, cover_image) ==
    LET book_id == NextRowid(books, seq) IN
    /\ CanAdd
    /\ ~Locked
    /\ cover_image = NoCover \/ Writable(cover_image)
    /\ books' = books \cup {InsertRow(book_id, book_data)}
    /\ seq' = book_id
    /\ covers' = IF cover_image = NoCover THEN covers
                 ELSE (book_id :> SavedCover(cover_image)) @@ covers
    /\ last' = Returned("add_book",
                        [book_data |-> book_data, cover_image |-> cover_image],
                        book_id, [book_id |-> book_id])
    /\ UNCHANGED conns

AddBook ==
    \E book_data \in BookInputs, cover_image \in CoverInputs :
        \/ AddBookLocked(book_data, cover_image)
        \/ AddBookBadCover(book_data, cover_image)
        \/ \E removes \in BOOLEAN :
               AddBookBadSave(book_data, cover_image, removes)
        \/ AddBookOk(book_data, cover_image)

-----------------------------------------------------------------------------
(* get_all_books()                                                         *)

GetAllBooks ==
    /\ last' = Returned("get_all_books", NoArgs, DataFrame(books), NoArgs)
    /\ UNCHANGED <<books, seq, covers, conns>>

-----------------------------------------------------------------------------
(* search_books(search_term, search_by)                                    *)

RECURSIVE Like(_, _)
\* text LIKE pattern in SQLite: % matches any run of characters, _ matches
\* any one character, everything else matches itself up to case.
Like(pattern, text) ==
    IF pattern = <<>> THEN text = <<>>
    ELSE IF Head(pattern) = "%"
         THEN \/ Like(Tail(pattern), text)
              \/ text # <<>> /\ Like(pattern, Tail(text))
         ELSE /\ text # <<>>
              /\ Head(pattern) = "_" \/ Fold(Head(pattern)) = Fold(Head(text))
              /\ Like(Tail(pattern), Tail(text))

\* The parameter of the query: f'%{search_term}%'.
SearchPattern(search_term) == <<"%">> \o search_term \o <<"%">>

\* The left operand of LIKE as text.
LikeText(x) ==
    CASE x.t = "integer" -> IntText(x.v)
      [] x.t = "real" -> RealText(x.v)
      [] x.t = "text" -> x.v

\* The words that are values by themselves.
ValueWords ==
    {<<"n", "u", "l", "l">>, <<"t", "r", "u", "e">>, <<"f", "a", "l", "s", "e">>, <<"c", "u", "r", "r", "e", "n", "t", "_", "d", "a", "t", "e">>, <<"c", "u", "r", "r", "e", "n", "t", "_", "t", "i", "m", "e">>,
     <<"c", "u", "r", "r", "e", "n", "t", "_", "t", "i", "m", "e", "s", "t", "a", "m", "p">>}

\* A token that can stand left of LIKE by itself.
IsOperandToken(tok) ==
    \/ tok.k \in {"dqname", "name", "number", "string"}
    \/ tok.k = "word" /\ FoldAll(tok.v) \notin ValueWords

OperandError == [kind |-> "error"]
OperandAll == [kind |-> "all"]
OperandColumn(col) == [kind |-> "column", col |-> col]
OperandValue(x) == [kind |-> "value", value |-> x]

\* What a token left of LIKE stands for: a column; a constant; or nothing
\* (no such column).  A name in double quotes that is no column is taken
\* for a string.
Operand(tok) ==
    CASE tok.k \in {"number"} -> OperandValue(SqlInteger(TextToInt(tok.v)))
      [] tok.k = "string" -> OperandValue(SqlText(tok.v))
      [] tok.k \in {"word", "name", "dqname"}
             /\ ResolveName(tok.v) # NoColumn ->
           OperandColumn(ResolveName(tok.v))
      [] tok.k = "dqname" /\ ResolveName(tok.v) = NoColumn ->
           OperandValue(SqlText(tok.v))
      [] tok.k \in {"word", "name"} /\ ResolveName(tok.v) = NoColumn ->
           OperandError

\* How SQLite takes f"SELECT * FROM books WHERE {search_by} LIKE ?", for
\* search_by of one of these forms (x a name, a whole number or a string):
\*     x        lower(x)        upper(x)        x COLLATE BINARY|NOCASE|RTRIM
\*     n=m OR x                 words, numbers and names with a ; among them
\* and for text with a quotation left open or with nothing in it.  lower,
\* upper and COLLATE change nothing for LIKE, which ignores case; n=m OR x
\* is true of every row when n = m; text after a ; is a second statement,
\* which sqlite3 refuses.
SearchOperand(search_by) ==
    LET T == TokensInStatement(search_by) IN
    CASE HasIllegal(T) -> OperandError
      [] T = <<>> -> OperandError
      [] /\ \E i \in 1..Len(T) : IsPunct(T[i], ";")
         /\ \A i \in 1..Len(T) :
                \/ IsPunct(T[i], ";")
                \/ T[i].k \in {"word", "number", "name", "dqname", "string"} ->
           OperandError
      [] Len(T) = 1 /\ IsOperandToken(T[1]) -> Operand(T[1])
      [] /\ Len(T) = 4
         /\ IsWord(T[1], {<<"l", "o", "w", "e", "r">>, <<"u", "p", "p", "e", "r">>})
         /\ IsPunct(T[2], "(")
         /\ IsOperandToken(T[3])
         /\ IsPunct(T[4], ")") ->
           Operand(T[3])
      [] /\ Len(T) = 3
         /\ IsOperandToken(T[1])
         /\ IsWord(T[2], {<<"c", "o", "l", "l", "a", "t", "e">>})
         /\ IsWord(T[3], {<<"b", "i", "n", "a", "r", "y">>, <<"n", "o", "c", "a", "s", "e">>, <<"r", "t", "r", "i", "m">>}) ->
           Operand(T[1])
      [] /\ Len(T) = 5
         /\ T[1].k = "number"
         /\ IsPunct(T[2], "=")
         /\ T[3].k = "number"
         /\ IsWord(T[4], {<<"o", "r">>})
         /\ IsOperandToken(T[5]) ->
           IF Operand(T[5]) # OperandError
                  /\ TextToInt(T[1].v) = TextToInt(T[3].v)
           THEN OperandAll
           ELSE Operand(T[5])

\* The statement is not compiled, or not run: pd.read_sql raises.
QueryFails(search_by) == SearchOperand(search_by) = OperandError

\* The query SQLite prepares for search_by: what it makes of the text does
\* not depend on the rows.
PrepareQuery(search_by) ==
    [search_by |-> search_by,
     fails |-> QueryFails(search_by),
     operand |-> SearchOperand(search_by)]

PreparedQueries == {PrepareQuery(search_by) : search_by \in SearchFields}

\* Row r satisfies operand LIKE '%search_term%'.
RowMatches(r, operand, search_term) ==
    CASE operand.kind = "column" ->
           Like(SearchPattern(search_term), LikeText(r[operand.col]))
      [] operand.kind = "value" ->
           Like(SearchPattern(search_term), LikeText(operand.value))
      [] operand.kind = "all" -> TRUE

SearchRows(search_term, query) ==
    DataFrame({r \in books :
                  RowMatches(r, query.operand, search_term)})

SearchBooksOk(search_term, query) ==
    /\ ~query.fails
    /\ last' = Returned("search_books",
                        [search_term |-> search_term, search_by |-> query.search_by],
                        SearchRows(search_term, query), NoArgs)
    /\ UNCHANGED <<books, seq, covers, conns>>

\* pd.read_sql raises: conn.close() on the next line is skipped.
SearchBooksFails(search_term, query) ==
    /\ query.fails
    /\ CanLeak
    /\ conns' = Leak(FALSE)
    /\ last' = Raised("search_books",
                      [search_term |-> search_term, search_by |-> query.search_by],
                      "DatabaseError", NoArgs)
    /\ UNCHANGED <<books, seq, covers>>

SearchBooks ==
    \E search_term \in SearchTerms, query \in PreparedQueries :
        \/ SearchBooksOk(search_term, query)
        \/ SearchBooksFails(search_term, query)

-----------------------------------------------------------------------------
(* update_book(book_id, updates)                                           *)

RECURSIVE SetClause(_)
\* set_clause = ', '.join([f"{key} = ?" for key in updates.keys()])
SetClause(updates) ==
    IF updates = <<>> THEN <<>>
    ELSE Head(updates).key \o <<" ", "=", " ", "?">>
             \o (IF Len(updates) = 1 THEN <<>>
                 ELSE <<",", " ">> \o SetClause(Tail(updates)))

\* values = list(updates.values())
Values(updates) == [i \in 1..Len(updates) |-> updates[i].value]

\* The left side of an assignment: a name, bare or quoted.
IsTarget(tok) == tok.k \in {"word", "name", "dqname", "string"}

\* The right side of an assignment: a placeholder or a constant.
IsValueToken(tok) == IsPunct(tok, "?") \/ tok.k \in {"number", "string"}

RECURSIVE IsAssignmentList(_)
\* name = value, name = value, ...
IsAssignmentList(T) ==
    /\ Len(T) >= 3
    /\ IsTarget(T[1])
    /\ IsPunct(T[2], "=")
    /\ IsValueToken(T[3])
    /\ \/ Len(T) = 3
       \/ /\ Len(T) >= 5
          /\ IsPunct(T[4], ",")
          /\ IsAssignmentList(SubSeq(T, 5, Len(T)))

\* The names assigned to in an assignment list.
Targets(T) == {T[i].v : i \in {j \in 1..Len(T) : j % 4 = 1}}

\* The placeholders of the SET clause.
Placeholders(T) == Cardinality({i \in 1..Len(T) : IsPunct(T[i], "?")})

\* How SQLite takes f"UPDATE books SET {set_clause} WHERE id = ?", for a
\* set_clause that reads as a list of assignments name = value, value a
\* placeholder, a whole number or a string; for one with a quotation left
\* open; and for one made of such names and values, = and commas in which
\* a key is empty.  The statement is not compiled when updates is empty
\* (nothing follows SET), when a quotation is left open, when a key is
\* empty, and when an assigned name is no column of books.
UpdateMalformed(updates) ==
    LET T == TokensInStatement(SetClause(updates)) IN
    CASE updates = <<>> -> TRUE
      [] HasIllegal(T) -> TRUE
      [] /\ updates # <<>>
         /\ \A i \in 1..Len(T) :
                \/ IsTarget(T[i]) \/ IsValueToken(T[i])
                \/ IsPunct(T[i], "=") \/ IsPunct(T[i], ",")
         /\ \/ IsPunct(T[1], "=")
            \/ \E i \in 1..(Len(T) - 1) :
                   IsPunct(T[i], ",") /\ IsPunct(T[i + 1], "=") ->
           TRUE
      [] IsAssignmentList(T) ->
           \E name \in Targets(T) : ResolveName(name) = NoColumn

\* The compiled statement has more placeholders than updates has values
\* and book_id fill: a key brought a placeholder of its own.
UpdateMisbound(updates) ==
    /\ ~UpdateMalformed(updates)
    /\ Placeholders(TokensInStatement(SetClause(updates))) # Len(updates)

RECURSIVE Assignments(_, _)
\* The assignments of the list T in order, the placeholders filled from
\* values in order.
Assignments(T, values) ==
    IF T = <<>> THEN <<>>
    ELSE LET bound == IsPunct(T[3], "?")
             value == CASE bound -> Adapt(Head(values))
                        [] T[3].k = "number" -> SqlInteger(TextToInt(T[3].v))
                        [] T[3].k = "string" -> SqlText(T[3].v)
         IN  <<[col |-> ResolveName(T[1].v), value |-> value,
                bound |-> bound]>>
                 \o Assignments(SubSeq(T, 5, Len(T)),
                                IF bound THEN Tail(values) ELSE values)

\* The assignments of the compiled statement, each with the value its
\* column stores for the value assigned.
Statement(updates) ==
    LET A == Assignments(TokensInStatement(SetClause(updates)), Values(updates))
    IN  [i \in 1..Len(A) |->
            [col |-> A[i].col,
             value |-> Affinity(A[i].col, A[i].value),
             bound |-> A[i].bound]]

\* The statement SQLite prepares for updates: what it makes of the text
\* does not depend on the rows.
Prepare(updates) ==
    [updates |-> updates,
     malformed |-> UpdateMalformed(updates),
     misbound |-> UpdateMisbound(updates),
     assignments |->
         IF UpdateMalformed(updates) \/ UpdateMisbound(updates)
         THEN <<>>
         ELSE Statement(updates)]

PreparedUpdates == {Prepare(updates) : updates \in UpdateInputs}

\* The row after the assignments A: where a column is assigned more than
\* once, the last assignment stands.
ApplyUpdates(r, A) ==
    [c \in AllColumns |->
        LET at == {i \in 1..Len(A) : A[i].col = c}
        IN  IF at = {} THEN r[c] ELSE A[Max(at)].value]

\* UPDATE books SET ... WHERE id = ?
UpdateRows(tbl, book_id, A) ==
    {IF r.id.v = book_id THEN ApplyUpdates(r, A) ELSE r : r \in tbl}

\* The new id is no integer (datatype mismatch) or is the id of another
\* row (UNIQUE constraint failed).
UpdateConflicts(tbl, book_id, A) ==
    /\ book_id \in Ids(tbl)
    /\ LET id == ApplyUpdates(RowOf(tbl, book_id), A).id
       IN  \/ id.t # "integer"
           \/ id.t = "integer" /\ id.v # book_id /\ id.v \in Ids(tbl)

UpdateAux(book_id) ==
    [row_existed |-> book_id \in Ids(books),
     cover_existed |-> CoverExists(book_id)]

UpdateBookMalformed(book_id, stmt) ==
    /\ stmt.malformed
    /\ CanLeak
    /\ conns' = Leak(FALSE)
    /\ last' = Raised("update_book",
                      [book_id |-> book_id, updates |-> stmt.updates],
                      "OperationalError", UpdateAux(book_id))
    /\ UNCHANGED <<books, seq, covers>>

UpdateBookMisbound(book_id, stmt) ==
    /\ stmt.misbound
    /\ CanLeak
    /\ conns' = Leak(FALSE)
    /\ last' = Raised("update_book",
                      [book_id |-> book_id, updates |-> stmt.updates],
                      "ProgrammingError", UpdateAux(book_id))
    /\ UNCHANGED <<books, seq, covers>>

\* The statement is compiled and its placeholders are filled.
UpdateRuns(stmt) ==
    ~stmt.malformed /\ ~stmt.misbound

UpdateBookLocked(book_id, stmt) ==
    /\ UpdateRuns(stmt)
    /\ Locked
    /\ CanLeak
    /\ conns' = Leak(FALSE)
    /\ last' = Raised("update_book",
                      [book_id |-> book_id, updates |-> stmt.updates],
                      "OperationalError", UpdateAux(book_id))
    /\ UNCHANGED <<books, seq, covers>>

\* The UPDATE fails inside the transaction it began: the connection is
\* left open holding the write lock.
UpdateBookConflict(book_id, stmt) ==
    /\ UpdateRuns(stmt)
    /\ ~Locked
    /\ UpdateConflicts(books, book_id, stmt.assignments)
    /\ CanLeak
    /\ conns' = Leak(TRUE)
    /\ last' = Raised("update_book",
                      [book_id |-> book_id, updates |-> stmt.updates],
                      "IntegrityError", UpdateAux(book_id))
    /\ UNCHANGED <<books, seq, covers>>

UpdateBookOk(book_id, stmt) ==
    /\ UpdateRuns(stmt)
    /\ ~Locked
    /\ ~UpdateConflicts(books, book_id, stmt.assignments)
    /\ books' = UpdateRows(books, book_id, stmt.assignments)
    /\ last' = Returned("update_book",
                        [book_id |-> book_id, updates |-> stmt.updates],
                        "None", UpdateAux(book_id))
    /\ UNCHANGED <<seq, covers, conns>>

UpdateBook ==
    \E book_id \in IdInputs, stmt \in PreparedUpdates :
        \/ UpdateBookMalformed(book_id, stmt)
        \/ UpdateBookMisbound(book_id, stmt)
        \/ UpdateBookLocked(book_id, stmt)
        \/ UpdateBookConflict(book_id, stmt)
        \/ UpdateBookOk(book_id, stmt)

-----------------------------------------------------------------------------
(* delete_book(book_id)                                                    *)

\* DELETE FROM books WHERE id = ?
DeleteRows(tbl, book_id) == {r \in tbl : r.id.v # book_id}

\* A delete that leaves the cover file behind.
RemoveCoverSkipped(files, book_id) == files

\* if os.path.exists(cover_path): os.remove(cover_path)
RemoveCover(files, book_id) ==
    [i \in DOMAIN files \ {book_id} |-> files[i]]

DeleteBookLocked(book_id) ==
    /\ Locked
    /\ CanLeak
    /\ conns' = Leak(FALSE)
    /\ last' = Raised("delete_book", [book_id |-> book_id],
                      "OperationalError", UpdateAux(book_id))
    /\ UNCHANGED <<books, seq, covers>>

DeleteBookOk(book_id) ==
    /\ ~Locked
    /\ books' = DeleteRows(books, book_id)
    /\ covers' = RemoveCover(covers, book_id)
    /\ last' = Returned("delete_book", [book_id |-> book_id], "None",
                        UpdateAux(book_id))
    /\ UNCHANGED <<seq, conns>>

DeleteBook ==
    \E book_id \in IdInputs :
        \/ DeleteBookLocked(book_id)
        \/ DeleteBookOk(book_id)

-----------------------------------------------------------------------------
(* The Python runtime finalizes a connection object a raising call left    *)
(* behind: the connection is closed and its open transaction rolled back.  *)
(* When that happens is up to the garbage collector.                       *)

FinalizeWriter ==
    /\ conns.writer
    /\ conns' = [open |-> conns.open - 1, writer |-> FALSE]
    /\ UNCHANGED <<books, seq, covers, last>>

FinalizeIdle ==
    /\ conns.open > (IF conns.writer THEN 1 ELSE 0)
    /\ conns' = [conns EXCEPT !.open = @ - 1]
    /\ UNCHANGED <<books, seq, covers, last>>

Finalize == FinalizeWriter \/ FinalizeIdle

-----------------------------------------------------------------------------

Next ==
    \/ AddBook
    \/ GetAllBooks
    \/ SearchBooks
    \/ UpdateBook
    \/ DeleteBook
    \/ Finalize

Spec == Init /\ [][Next]_vars

\* The behaviours without searches.  search_books writes neither the table
\* nor a cover file, and the connection it may leave open holds no lock,
\* like the one a malformed update_book leaves.
NextMutations ==
    \/ AddBook
    \/ GetAllBooks
    \/ UpdateBook
    \/ DeleteBook
    \/ Finalize

SpecMutations == Init /\ [][NextMutations]_vars

-----------------------------------------------------------------------------
(* Properties of the store.                                                *)

RowSet(df) == {df[i] : i \in 1..Len(df)}

LastIs(op) == last.op = op

\* The step is a call of store function op: a call sets last and closes no
\* connection but its own, and Finalize closes a leaked one.
Called(op) == last'.op = op /\ conns'.open >= conns.open

\* text contains term, character for character.
IsSubstring(term, text) ==
    \E i \in 0..(Len(text) - Len(term)) : SubSeq(text, i + 1, i + Len(term)) = term

\* text contains term when case is ignored.
IsSubstringNoCase(term, text) == IsSubstring(FoldAll(term), FoldAll(text))

\* The ISO 8601 text of the dates the inputs use.
IsoTextOf(d) ==
    CASE d = <<2024, 1, 2>> -> <<"2", "0", "2", "4", "-", "0", "1", "-", "0", "2">>
      [] d = <<2023, 12, 31>> -> <<"2", "0", "2", "3", "-", "1", "2", "-", "3", "1">>

\* that id and no cover file of that id exists, whether or not one existed
\* before.
C2_DeleteComplete ==
    (LastIs("delete_book") /\ last.status = "ok") =>
        /\ \A row \in RowSet(DataFrame(books)) : row.id.v # last.args.book_id
        /\ ~CoverExists(last.args.book_id)

\* delete_book returned for a book that had a row and a cover file.
C2_Witness ==
    /\ LastIs("delete_book")
    /\ last.status = "ok"
    /\ last.aux.row_existed
    /\ last.aux.cover_existed

\* The columns updates names: those its values are assigned to.
NamedColumns(updates) ==
    LET A == Prepare(updates).assignments
    IN  {A[i].col : i \in {j \in 1..Len(A) : A[j].bound}}

\* The value updates gives for column c, as column c stores it.
GivenValue(updates, c) ==
    LET A == Prepare(updates).assignments
    IN  A[Max({i \in 1..Len(A) : A[i].bound /\ A[i].col = c})].value

\* C3: update_book(id, updates) on an existing id changes exactly the
\* columns updates names on the row of that id: after the call the row
\* holds the value given in each column named and the value it had in every
\* other column, and the other rows, the number of rows and the cover files
\* are as they were.  A call that raises changes nothing.
C3_UpdateFrame ==
    [][(Called("update_book") /\ last'.args.book_id \in Ids(books)) =>
          LET r == RowOf(books, last'.args.book_id)
              updates == last'.args.updates
          IN  /\ covers' = covers
              /\ IF last'.status = "ok"
                 THEN books' = (books \ {r}) \cup
                          {[c \in AllColumns |->
                               IF c \in NamedColumns(updates)
                               THEN GivenValue(updates, c)
                               ELSE r[c]]}
                 ELSE books' = books]_vars

\* C4: search_books(term, F) with F of title, author, genre, isbn returns
\* row R iff term is a substring of R's F; the empty term returns every
\* row.  The spec leaves the case rule open, so a row is asked for when it
\* holds term exactly and refused only when it does not hold term even
\* with case ignored.
C4_SearchIsSubstring ==
    (LastIs("search_books") /\ last.args.search_by \in AllowList) =>
        /\ last.status = "ok"
        /\ \A row \in RowSet(DataFrame(books)) :
              LET text == row[ResolveName(last.args.search_by)].v
                  term == last.args.search_term
              IN  /\ IsSubstring(term, text) => row \in RowSet(last.ret)
                  /\ row \in RowSet(last.ret) => IsSubstringNoCase(term, text)
        /\ last.args.search_term = <<>> =>
              RowSet(last.ret) = RowSet(DataFrame(books))

\* C5: search_books with a field outside the allow-list fails (whatever
\* the kind of the error) and leaves the table as it was.
C5_SearchRejectsField ==
    [][(Called("search_books") /\ last'.args.search_by \notin AllowList) =>
          /\ last'.status # "ok"
          /\ books' = books]_vars

\* C6: update_book with an id no row has fails (whatever the kind of the
\* error) and leaves every row and every cover file as it was.
C6_UpdateMissingFails ==
    [][(Called("update_book") /\ last'.args.book_id \notin Ids(books)) =>
          /\ last'.status # "ok"
          /\ books' = books
          /\ covers' = covers]_vars

\* C7: when add_book is given a cover and decoding it fails after the
\* INSERT, the error reaches the caller and the inserted row is in the
\* table: get_all_books() holds it.
C7_RowSurvivesCoverFailure ==
    (LastIs("add_book") /\ last.args.cover_image # NoCover
         /\ last.status = "OSError") =>
        \E row \in RowSet(DataFrame(books)) : row.id.v = last.aux.book_id

\* C8: no two rows share an id, and the id of a row does not change while
\* the row lives: an id leaves the table only by delete_book of that id.
C8_IdUniqueImmutable ==
    [][/\ \A r1, r2 \in books' : r1.id = r2.id => r1 = r2
       /\ \A id \in Ids(books) \ Ids(books') :
             Called("delete_book") /\ last'.args.book_id = id]_vars

\* C9: every store function has closed the connection it opened when it
\* returns or raises: no connection is open between calls.
C9_ConnectionsReleased == conns.open = 0

\* C10: a cover file of an id exists only while a row of that id is in the
\* table, and it is the file written when that row was added.
C10_CoverFollowsBook ==
    [][\A id \in DOMAIN covers' :
          /\ id \in Ids(books')
          /\ \/ /\ Called("add_book")
                /\ last'.status = "ok"
                /\ last'.ret = id
                /\ last'.args.cover_image # NoCover
                /\ covers'[id] = SavedCover(last'.args.cover_image)
             \/ /\ ~(Called("add_book") /\ last'.status = "ok" /\ last'.ret = id)
                /\ id \in DOMAIN covers
                /\ id \in Ids(books)
                /\ covers'[id] = covers[id]]_vars

====
